---- MODULE Spec2Model ----
(***************************************************************************)
(* Lifecycle state machine and signal-driven event loop of the helper      *)
(* daemon skeleton: helper.controller.Controller and its predecessor       *)
(* clihelper.Controller (package clihelper/__init__.py).                   *)
(*                                                                         *)
(* The interpreter runs Python-level signal handlers on the main thread,   *)
(* between two statements of whatever the main thread is executing, and a  *)
(* handler can itself be interrupted by another handler.  The program is   *)
(* therefore modelled as ONE call stack of frames; the top frame executes, *)
(* and a signal delivery pushes a handler frame on top of it.              *)
(***************************************************************************)
EXTENDS Integers, Sequences, FiniteSets, TLC

\* ------------------------------------------------------------------ bounds
\* external signals (SIGHUP, SIGTERM, SIGUSR1, SIGUSR2) delivered in one run
MaxSignals == 2
\* signal handlers (SIGALRM included) nested inside each other at one time
MaxNest == 2

\* --------------------------------------------------------------- constants
STATE_INITIALIZING == 1
STATE_SLEEPING == 2
STATE_IDLE == 3
STATE_ACTIVE == 4
STATE_STOP_REQUESTED == 5
STATE_STOPPING == 6
STATE_STOPPED == 7

\* Controller.WAKE_INTERVAL
WAKE_INTERVAL == 60

\* Controller._STATES.keys()
STATES == {STATE_INITIALIZING, STATE_SLEEPING, STATE_IDLE, STATE_ACTIVE,
           STATE_STOP_REQUESTED, STATE_STOPPING, STATE_STOPPED}

\* the two revisions of the controller that share set_state/stop/_sleep/_wake
Impls == {"helper", "clihelper"}

\* what loading the configuration file can yield: one of two contents, or a
\* file that does not parse (ValueError)
BadFile == "bad"
FileContents == {"cfgA", "cfgB", BadFile}

\* the wake interval a configuration holds under Application: the initial
\* file says 60, the edited one 5, and a file that does not parse says nothing
WakeOf(c) == CASE c = "cfgA" -> 60 [] c = "cfgB" -> 5 [] OTHER -> 0

Signals == {"SIGHUP", "SIGTERM", "SIGUSR1", "SIGUSR2"}
HandlerFns == {"on_sighup", "on_sigterm", "on_sigusr1", "on_sigusr2", "_wake",
               "_on_sighup", "_on_sigterm"}

VARIABLES
    impl,         \* which revision of the controller runs
    state,        \* Controller._state
    stack,        \* call stack of the main thread, bottom first
    itimer,       \* armed interval timers: [{"REAL","PROF"} -> BOOLEAN]
    installed,    \* setup_signals() has registered the four handlers
    alrm,         \* signal.signal(SIGALRM, self._wake) has been executed
    nsig,         \* external signals delivered so far
    inflight,     \* process() invocations that have started and not returned
    hasFile,      \* Config._file_path is set
    values,       \* Config._values / Controller._config (the snapshot)
    crashed,      \* an exception escaped to the top of the main thread
    cleanups,     \* cleanup() invocations so far
    stops,        \* _stopped() calls that moved the state into Stopped
    reloadeds,    \* configuration_reloaded() invocations so far
    resleep,      \* _sleep ran for a _wake whose process() saw a SIGTERM
    restStop,     \* a SIGTERM arrived while run() was sleeping in its wait loop
    last,         \* the most recent set_state call: [from, to, outcome]
    application,  \* Config.application['wake_interval'], set by __init__
    loadedFile,   \* what the latest reload read from the configuration file
    cleanupFailed, \* the cleanup() hook has raised an exception
    setups,       \* setup() invocations so far
    processFailed, \* process() has raised an exception
    restHup,      \* a SIGHUP arrived while run() was sleeping in its wait loop
    LOGGING,      \* the class attribute Config.LOGGING (one shared dict)
    snapshot,     \* what the latest read of Config.logging returned
    reloadResult, \* what the latest Config.reload() call returned or raised
    logging_config \* Controller.logging_config: [built, debug, update]

vars == <<impl, state, stack, itimer, installed, alrm, nsig, inflight,
          hasFile, values, crashed, cleanups, stops, reloadeds, resleep,
          restStop, last, application, loadedFile, cleanupFailed,
          setups, processFailed, restHup, LOGGING, snapshot,
          reloadResult, logging_config>>

\* ------------------------------------------------- Controller properties
is_active(s) == s = STATE_ACTIVE
\* is_idle that never reports the Idle state
is_idle_never(s) == FALSE
is_idle(s) == s = STATE_IDLE
is_initializing(s) == s = STATE_INITIALIZING
\* is_running that also reports a requested stop
is_running_or_stop_requested(s) ==
    s \in {STATE_ACTIVE, STATE_IDLE, STATE_INITIALIZING, STATE_STOP_REQUESTED}
is_running(s) == s \in {STATE_ACTIVE, STATE_IDLE, STATE_INITIALIZING}
is_sleeping(s) == s = STATE_SLEEPING
is_stopped(s) == s = STATE_STOPPED
\* is_stopping that never reports the Stopping state
is_stopping_never(s) == FALSE
is_stopping(s) == s = STATE_STOPPING
is_waiting_to_stop(s) == s = STATE_STOP_REQUESTED

\* ---------------------------------------------------- Controller.set_state
\* set_state without the validation of the Stopping state: every recognized
\* target is accepted while stopping
set_state_skips_stopping_check(cur, target) ==
    IF target = cur
      THEN [state |-> cur, outcome |-> "noop"]
    ELSE IF target \notin STATES
      THEN [state |-> cur, outcome |-> "raise"]
    ELSE IF is_waiting_to_stop(cur)
            /\ target \notin {STATE_STOPPING, STATE_STOPPED}
      THEN [state |-> cur, outcome |-> "reject"]
    ELSE IF is_running(cur)
            /\ target \notin {STATE_ACTIVE, STATE_IDLE, STATE_SLEEPING,
                              STATE_STOP_REQUESTED, STATE_STOPPING}
      THEN [state |-> cur, outcome |-> "reject"]
    ELSE IF is_sleeping(cur)
            /\ target \notin {STATE_ACTIVE, STATE_IDLE,
                              STATE_STOP_REQUESTED, STATE_STOPPING}
      THEN [state |-> cur, outcome |-> "reject"]
    ELSE [state |-> target, outcome |-> "set"]

\* set_state that returns silently, like an illegal transition, when the
\* value is not a recognized state
set_state_ignores_unknown(cur, target) ==
    IF target = cur
      THEN [state |-> cur, outcome |-> "noop"]
    ELSE IF target \notin STATES
      THEN [state |-> cur, outcome |-> "reject"]
    ELSE IF is_waiting_to_stop(cur)
            /\ target \notin {STATE_STOPPING, STATE_STOPPED}
      THEN [state |-> cur, outcome |-> "reject"]
    ELSE IF is_stopping(cur) /\ target # STATE_STOPPED
      THEN [state |-> cur, outcome |-> "reject"]
    ELSE IF is_running(cur)
            /\ target \notin {STATE_ACTIVE, STATE_IDLE, STATE_SLEEPING,
                              STATE_STOP_REQUESTED, STATE_STOPPING}
      THEN [state |-> cur, outcome |-> "reject"]
    ELSE IF is_sleeping(cur)
            /\ target \notin {STATE_ACTIVE, STATE_IDLE,
                              STATE_STOP_REQUESTED, STATE_STOPPING}
      THEN [state |-> cur, outcome |-> "reject"]
    ELSE [state |-> target, outcome |-> "set"]

\* set_state without the test of the value against _STATES
set_state_accepts_unknown(cur, target) ==
    IF target = cur
      THEN [state |-> cur, outcome |-> "noop"]
    ELSE IF is_waiting_to_stop(cur)
            /\ target \notin {STATE_STOPPING, STATE_STOPPED}
      THEN [state |-> cur, outcome |-> "reject"]
    ELSE IF is_stopping(cur) /\ target # STATE_STOPPED
      THEN [state |-> cur, outcome |-> "reject"]
    ELSE IF is_running(cur)
            /\ target \notin {STATE_ACTIVE, STATE_IDLE, STATE_SLEEPING,
                              STATE_STOP_REQUESTED, STATE_STOPPING}
      THEN [state |-> cur, outcome |-> "reject"]
    ELSE IF is_sleeping(cur)
            /\ target \notin {STATE_ACTIVE, STATE_IDLE,
                              STATE_STOP_REQUESTED, STATE_STOPPING}
      THEN [state |-> cur, outcome |-> "reject"]
    ELSE [state |-> target, outcome |-> "set"]

\* set_state that compares the value with the current state only after the
\* transition checks
set_state_same_state_last(cur, target) ==
    IF target \notin STATES
      THEN [state |-> cur, outcome |-> "raise"]
    ELSE IF is_waiting_to_stop(cur)
            /\ target \notin {STATE_STOPPING, STATE_STOPPED}
      THEN [state |-> cur, outcome |-> "reject"]
    ELSE IF is_stopping(cur) /\ target # STATE_STOPPED
      THEN [state |-> cur, outcome |-> "reject"]
    ELSE IF is_running(cur)
            /\ target \notin {STATE_ACTIVE, STATE_IDLE, STATE_SLEEPING,
                              STATE_STOP_REQUESTED, STATE_STOPPING}
      THEN [state |-> cur, outcome |-> "reject"]
    ELSE IF is_sleeping(cur)
            /\ target \notin {STATE_ACTIVE, STATE_IDLE,
                              STATE_STOP_REQUESTED, STATE_STOPPING}
      THEN [state |-> cur, outcome |-> "reject"]
    ELSE IF target = cur
      THEN [state |-> cur, outcome |-> "noop"]
    ELSE [state |-> target, outcome |-> "set"]

\* The outcome of set_state(target) in state cur: the new state and which
\* branch was taken ("noop", "raise", "reject" or "set").
set_state(cur, target) ==
    IF target = cur
      THEN [state |-> cur, outcome |-> "noop"]
    ELSE IF target \notin STATES
      THEN [state |-> cur, outcome |-> "raise"]
    ELSE IF is_waiting_to_stop(cur)
            /\ target \notin {STATE_STOPPING, STATE_STOPPED}
      THEN [state |-> cur, outcome |-> "reject"]
    ELSE IF is_stopping(cur) /\ target # STATE_STOPPED
      THEN [state |-> cur, outcome |-> "reject"]
    ELSE IF is_running(cur)
            /\ target \notin {STATE_ACTIVE, STATE_IDLE, STATE_SLEEPING,
                              STATE_STOP_REQUESTED, STATE_STOPPING}
      THEN [state |-> cur, outcome |-> "reject"]
    ELSE IF is_sleeping(cur)
            /\ target \notin {STATE_ACTIVE, STATE_IDLE,
                              STATE_STOP_REQUESTED, STATE_STOPPING}
      THEN [state |-> cur, outcome |-> "reject"]
    ELSE [state |-> target, outcome |-> "set"]


\* ------------------------------------------------------------ Config.reload
\* Data defines neither __eq__ nor __hash__, so hash() of two distinct live
\* Data objects is their identity hash: it differs whatever they hold.
data_hash_differs(new, old) == TRUE

\* Config.reload that stores what it read before it knows whether the file
\* parsed
config_reload_stores_first(file, stored, storedIsData, loaded) ==
    IF ~file
      THEN [values |-> stored, result |-> "False"]
    ELSE IF loaded = BadFile
      THEN [values |-> loaded, result |-> "False"]
    ELSE IF ~storedIsData
      THEN [values |-> stored, result |-> "TypeError"]
    ELSE IF data_hash_differs(loaded, stored)
      THEN [values |-> loaded, result |-> "True"]
    ELSE [values |-> stored, result |-> "False"]

\* Config.reload with a comparison of the stored values that never raises:
\* the freshly loaded values replace the stored ones
config_reload_hashable(file, stored, storedIsData, loaded) ==
    IF ~file \/ loaded = BadFile
      THEN [values |-> stored, result |-> "False"]
      ELSE [values |-> loaded, result |-> "True"]

\* Config.reload(): `loaded` is what _load_config_file() yields now and
\* storedIsData tells whether Config._values is a Data object (it is the plain
\* dict returned by _load_config_file() when the Config was built from a file,
\* and hash() of a dict raises TypeError).  Result: the new _values and
\* "True", "False" or the exception that escapes.
config_reload(file, stored, storedIsData, loaded) ==
    IF ~file
      THEN [values |-> stored, result |-> "False"]
    ELSE IF loaded = BadFile
      THEN [values |-> stored, result |-> "False"]
    ELSE IF ~storedIsData
      THEN [values |-> stored, result |-> "TypeError"]
    ELSE IF data_hash_differs(loaded, stored)
      THEN [values |-> loaded, result |-> "True"]
    ELSE [values |-> stored, result |-> "False"]

\* signal.setitimer(which, seconds, 0): arms the timer when seconds > 0 and
\* disarms it when seconds = 0
setitimer(timers, which, armed) == [timers EXCEPT ![which] = armed]

\* the timer stop() clears
stop_timer == "PROF"
\* _sleep() arming the timer that stop() clears
sleep_timer_as_cleared == stop_timer
\* the timer _sleep() arms
sleep_timer == "REAL"

\* ------------------------------------ Config.logging and LoggingConfig
\* The logging dictionaries, reduced to the entries the code rewrites: a
\* handler is "missing" (no such key under 'handlers'), or it is present and
\* its 'debug_only' key is "absent", "True" or "False"; `helper` is the list
\* loggers['helper']['handlers'].
HandlerNames == {"console", "file"}

\* Config.LOGGING as the class body defines it
DefaultLOGGING ==
    [handlers |-> [h \in HandlerNames |->
                     IF h = "console" THEN "True" ELSE "missing"],
     helper |-> {"console"}]

\* the Logging section of a configuration file: the handlers it defines and,
\* when hasHelper, the handler list of its 'helper' logger
NoLogging ==
    [handlers |-> [h \in HandlerNames |-> "missing"],
     hasHelper |-> FALSE, helper |-> {}]
LoggingSections ==
    {NoLogging,
     [NoLogging EXCEPT !.handlers["file"] = "absent",
                       !.hasHelper = TRUE, !.helper = {"console", "file"}],
     [NoLogging EXCEPT !.handlers["file"] = "True"],
     [NoLogging EXCEPT !.handlers["file"] = "False"],
     [NoLogging EXCEPT !.handlers["console"] = "False"],
     [NoLogging EXCEPT !.handlers["console"] = "True"],
     [NoLogging EXCEPT !.hasHelper = TRUE, !.helper = {"file"}]}

\* the Logging section of the configuration the controller is built with
LoggingOf(c) == NoLogging

\* Config.logging: `config = self.LOGGING` binds the class dictionary itself,
\* and every key of config_in is written into it.  The result is the new
\* content of that one dictionary, which is also what the property returns.
logging(config, config_in) ==
    [handlers |-> [h \in HandlerNames |->
                     IF config_in.handlers[h] # "missing"
                       THEN config_in.handlers[h] ELSE config.handlers[h]],
     helper |-> IF config_in.hasHelper THEN config_in.helper
                                       ELSE config.helper]

\* LoggingConfig._remove_debug_only(): `del` of the key in each handler
_remove_debug_only(config) ==
    [config EXCEPT !.handlers =
        [h \in HandlerNames |->
           IF config.handlers[h] \in {"True", "False"}
             THEN "absent" ELSE config.handlers[h]]]

\* LoggingConfig._remove_debug_handlers(): handlers whose debug_only is true
\* are deleted, and so are the references the loggers hold to them
_remove_debug_handlers(config) ==
    LET remove == {h \in HandlerNames : config.handlers[h] = "True"}
    IN  _remove_debug_only(
          [handlers |-> [h \in HandlerNames |->
                           IF h \in remove THEN "missing"
                                           ELSE config.handlers[h]],
           helper |-> config.helper \ remove])

\* LoggingConfig.configure() on self.config; debug is "None", "True" or
\* "False"
configure(config, debug) ==
    _remove_debug_only(IF debug = "False"
                         THEN _remove_debug_handlers(config) ELSE config)

\* hash() of a dict: dict.__hash__ is None, the call raises TypeError
dict_hash(d) == "TypeError"

\* LoggingConfig.update(configuration, debug): the two hash() calls come
\* first; the dictionary is replaced and configured only when the hashes
\* differ and the debug flag differs too.  Result: the new self.config and
\* self.debug and "True", "False" or the exception that escapes.
update(self_config, self_debug, configuration, debug) ==
    IF dict_hash(self_config) = "TypeError"
         \/ dict_hash(configuration) = "TypeError"
      THEN [config |-> self_config, debug |-> self_debug,
            result |-> "TypeError"]
    ELSE IF dict_hash(self_config) # dict_hash(configuration)
              /\ debug # self_debug
      THEN [config |-> configure(configuration, debug), debug |-> debug,
            result |-> "True"]
    ELSE [config |-> self_config, debug |-> self_debug, result |-> "False"]

\* Config.LOGGING once Controller.__init__ has built the LoggingConfig of a
\* daemon (args.foreground is False) from self.config.logging
ConstructedLOGGING ==
    configure(logging(DefaultLOGGING, LoggingOf("cfgA")), "False")

\* ------------------------------- clihelper.py, the single-file controller
_STATE_IDLE == 0
_STATE_RUNNING == 1
_STATE_SLEEPING == 2
_STATE_SHUTTING_DOWN == 3

\* Controller._WAKE_INTERVAL
_WAKE_INTERVAL == 60

LEGACY_STATES == {_STATE_IDLE, _STATE_RUNNING, _STATE_SLEEPING,
                  _STATE_SHUTTING_DOWN}

\* _set_state that lets a controller that is shutting down go anywhere
_set_state_no_shutdown_check(cur, target) ==
    IF target \notin LEGACY_STATES
      THEN [state |-> cur, outcome |-> "raise"]
    ELSE IF cur = _STATE_RUNNING
            /\ target \notin {_STATE_SLEEPING, _STATE_SHUTTING_DOWN}
      THEN [state |-> cur, outcome |-> "reject"]
    ELSE IF cur = _STATE_SLEEPING
            /\ target \notin {_STATE_RUNNING, _STATE_SHUTTING_DOWN}
      THEN [state |-> cur, outcome |-> "reject"]
    ELSE [state |-> target, outcome |-> "set"]

\* Controller._set_state(state) of clihelper.py: the value is validated
\* first; there is no test for the current state
_set_state(cur, target) ==
    IF target \notin LEGACY_STATES
      THEN [state |-> cur, outcome |-> "raise"]
    ELSE IF cur = _STATE_SHUTTING_DOWN /\ target # _STATE_IDLE
      THEN [state |-> cur, outcome |-> "reject"]
    ELSE IF cur = _STATE_RUNNING
            /\ target \notin {_STATE_SLEEPING, _STATE_SHUTTING_DOWN}
      THEN [state |-> cur, outcome |-> "reject"]
    ELSE IF cur = _STATE_SLEEPING
            /\ target \notin {_STATE_RUNNING, _STATE_SHUTTING_DOWN}
      THEN [state |-> cur, outcome |-> "reject"]
    ELSE [state |-> target, outcome |-> "set"]

\* ------------------------------------------------------------ the call stack
Frame(f, p) == [fn |-> f, pc |-> p, term |-> FALSE, act |-> FALSE]
Top == stack[Len(stack)]
At(f) == stack # <<>> /\ Top.fn = f
Goto(p) == [stack EXCEPT ![Len(stack)].pc = p]
Call(f, p, ret) == Append(Goto(ret), Frame(f, p))
\* the top frame returns; a frame blocked in signal.pause() right below it is
\* released (pause() returns once a handler has run)
Return ==
    LET s == SubSeq(stack, 1, Len(stack) - 1)
    IN  IF s # <<>> /\ s[Len(s)].pc = "pause"
          THEN [s EXCEPT ![Len(s)].pc = "woken"]
          ELSE s
Nest == Cardinality({i \in 1..Len(stack) : stack[i].fn \in HandlerFns})

\* self.set_state(target), as one statement of the caller
SetState(target) ==
    LET r == set_state(state, target)
    IN  /\ state' = r.state
        /\ last' = [from |-> state, to |-> target, outcome |-> r.outcome]

\* an exception nobody catches unwinds the whole stack
Crash ==
    /\ stack' = <<>>
    /\ crashed' = TRUE
    /\ inflight' = 0

Init ==
    /\ impl \in Impls
    /\ state = STATE_INITIALIZING
    /\ stack = <<Frame("start", "setup_signals")>>
    /\ itimer = [t \in {"REAL", "PROF"} |-> FALSE]
    /\ installed = FALSE
    /\ alrm = FALSE
    /\ nsig = 0
    /\ inflight = 0
    /\ hasFile \in (IF impl = "helper" THEN BOOLEAN ELSE {TRUE})
    /\ values = "cfgA"
    /\ crashed = FALSE
    /\ cleanups = 0
    /\ stops = 0
    /\ reloadeds = 0
    /\ resleep = FALSE
    /\ restStop = FALSE
    /\ last = [from |-> 0, to |-> STATE_INITIALIZING, outcome |-> "set"]
    /\ application = WakeOf(values)
    /\ loadedFile = "none"
    /\ cleanupFailed = FALSE
    /\ setups = 0
    /\ processFailed = FALSE
    /\ restHup = FALSE
    /\ LOGGING = ConstructedLOGGING
    /\ snapshot = [returned |-> TRUE, config |-> ConstructedLOGGING]
    /\ reloadResult = "none"
    /\ logging_config = [built |-> TRUE, debug |-> "False", update |-> "none"]

\* Controller.wake_interval: helper reads the Application values that
\* Config.__init__ copied; clihelper reads the current Controller._config
wake_interval ==
    IF impl = "helper"
      THEN IF application # 0 THEN application ELSE WAKE_INTERVAL
      ELSE IF WakeOf(values) # 0 THEN WakeOf(values) ELSE WAKE_INTERVAL

\* Controller.start() (clihelper: clihelper.run() under the DaemonContext)
StartStep ==
    /\ At("start")
    /\ installed' = (installed \/ Top.pc = "setup_signals")
    /\ stack' = CASE Top.pc = "setup_signals" -> Goto("run")
                  [] Top.pc = "run" -> Call("run", "setup", "ret")
                  [] Top.pc = "ret" -> Return
    /\ UNCHANGED <<impl, state, itimer, alrm, nsig, inflight, hasFile, values,
                   crashed, cleanups, stops, reloadeds, resleep, last,
                   restStop, application, loadedFile, cleanupFailed,
                   setups, processFailed, restHup, LOGGING, snapshot,
                   reloadResult, logging_config>>

\* Controller.run()
RunStep ==
    /\ impl \in Impls
    /\ At("run")
    /\ Top.pc \in {"setup", "sigalrm", "sleep", "loop", "call_pause", "woken"}
    /\ alrm' = (alrm \/ Top.pc = "sigalrm")
    /\ setups' = IF Top.pc = "setup" THEN setups + 1 ELSE setups
    /\ stack' = CASE Top.pc = "setup" -> Goto("process")
                  [] Top.pc = "sigalrm" -> Goto("sleep")
                  [] Top.pc = "sleep" -> Call("_sleep", "check", "loop")
                  [] Top.pc = "loop" ->
                        IF is_running(state) \/ is_sleeping(state)
                          THEN Goto("call_pause") ELSE Return
                  [] Top.pc = "call_pause" -> Goto("pause")
                  [] Top.pc = "woken" -> Goto("loop")
    /\ UNCHANGED <<impl, state, itimer, installed, nsig, inflight, hasFile,
                   values, crashed, cleanups, stops, reloadeds, resleep, last,
                   restStop, application, loadedFile, cleanupFailed,
                   processFailed, restHup, LOGGING, snapshot,
                   reloadResult, logging_config>>

\* self.process() is entered, from run() or from _wake()
ProcessCall ==
    /\ stack # <<>>
    /\ Top.pc = "process"
    /\ inflight' = inflight + 1
    /\ stack' = Goto("in_process")
    /\ UNCHANGED <<impl, state, itimer, installed, alrm, nsig, hasFile,
                   values, crashed, cleanups, stops, reloadeds, resleep, last,
                   restStop, application, loadedFile, cleanupFailed,
                   setups, processFailed, restHup, LOGGING, snapshot,
                   reloadResult, logging_config>>

\* self.process() returns to run() or to _wake()
ProcessReturn ==
    /\ stack # <<>>
    /\ Top.pc = "in_process"
    /\ inflight' = inflight - 1
    /\ stack' = Goto(IF Top.fn = "run" THEN "sigalrm" ELSE "after")
    /\ UNCHANGED <<impl, state, itimer, installed, alrm, nsig, hasFile,
                   values, crashed, cleanups, stops, reloadeds, resleep, last,
                   restStop, application, loadedFile, cleanupFailed,
                   setups, processFailed, restHup, LOGGING, snapshot,
                   reloadResult, logging_config>>

\* a failure of process() that the caller catches: the loop carries on as
\* after a normal return
ProcessRaise_caught ==
    /\ stack # <<>>
    /\ Top.pc = "in_process"
    /\ processFailed' = TRUE
    /\ inflight' = inflight - 1
    /\ stack' = Goto(IF Top.fn = "run" THEN "sigalrm" ELSE "after")
    /\ UNCHANGED <<impl, state, itimer, installed, alrm, nsig, hasFile,
                   values, crashed, cleanups, stops, reloadeds, resleep, last,
                   restStop, application, loadedFile, cleanupFailed,
                   setups, restHup, LOGGING, snapshot,
                   reloadResult, logging_config>>

\* self.process(), the application's hook, raises: neither _wake() nor run()
\* nor start() has a try statement around the call
ProcessRaise ==
    /\ stack # <<>>
    /\ Top.pc = "in_process"
    /\ processFailed' = TRUE
    /\ Crash
    /\ UNCHANGED <<impl, state, itimer, installed, alrm, nsig, hasFile,
                   values, cleanups, stops, reloadeds, resleep, last,
                   restStop, application, loadedFile, cleanupFailed,
                   setups, restHup, LOGGING, snapshot,
                   reloadResult, logging_config>>

\* Controller._wake(), the SIGALRM handler
WakeStep ==
    /\ impl \in Impls
    /\ At("_wake")
    /\ Top.pc \in {"check", "set_active", "after", "set_stopping", "sleep",
                   "ret"}
    /\ CASE Top.pc = "set_active" -> SetState(STATE_ACTIVE)
         [] Top.pc = "set_stopping" -> SetState(STATE_STOPPING)
         [] OTHER -> UNCHANGED <<state, last>>
    /\ stack' = CASE Top.pc = "check" ->
                        IF ~(is_stopping(state) \/ is_stopped(state)
                             \/ is_idle(state))
                          THEN Goto("set_active") ELSE Return
                  [] Top.pc = "set_active" -> Goto("process")
                  [] Top.pc = "after" ->
                        IF is_waiting_to_stop(state)
                          THEN Goto("set_stopping") ELSE Goto("sleep")
                  [] Top.pc = "set_stopping" -> Return
                  [] Top.pc = "sleep" -> Call("_sleep", "check", "ret")
                  [] Top.pc = "ret" -> Return
    /\ UNCHANGED <<impl, itimer, installed, alrm, nsig, inflight, hasFile,
                   values, crashed, cleanups, stops, reloadeds, resleep,
                   restStop, application, loadedFile, cleanupFailed,
                   setups, processFailed, restHup, LOGGING, snapshot,
                   reloadResult, logging_config>>

\* Controller._sleep(), called by run() and by _wake().  signal.setitimer
\* rejects a negative number of seconds with an exception.
SleepStep ==
    /\ impl \in Impls
    /\ At("_sleep")
    /\ LET caller == stack[Len(stack) - 1]
           sets == set_state(state, STATE_SLEEPING).outcome = "set"
       IN  resleep' = (resleep \/ (/\ caller.fn = "_wake"
                                   /\ caller.term
                                   /\ \/ Top.pc = "setitimer"
                                      \/ Top.pc = "set_state" /\ sets))
    /\ itimer' = IF Top.pc = "setitimer" /\ wake_interval >= 0
                   THEN setitimer(itimer, sleep_timer, wake_interval > 0)
                   ELSE itimer
    /\ IF Top.pc = "set_state"
         THEN SetState(STATE_SLEEPING) ELSE UNCHANGED <<state, last>>
    /\ IF Top.pc = "setitimer" /\ wake_interval < 0
         THEN Crash
         ELSE /\ stack' =
                   CASE Top.pc = "check" ->
                          IF is_stopping(state) THEN Return
                                                ELSE Goto("setitimer")
                     [] Top.pc = "setitimer" -> Goto("set_state")
                     [] Top.pc = "set_state" -> Return
              /\ UNCHANGED <<crashed, inflight>>
    /\ UNCHANGED <<impl, installed, alrm, nsig, hasFile, values, cleanups,
                   stops, reloadeds, restStop, application, loadedFile,
                   cleanupFailed, setups, processFailed, restHup, LOGGING,
                   snapshot,
                   reloadResult, logging_config>>

\* stop() that returns as soon as it has asked for the stop
StopNext_returns_after_request == Return

\* the statement of stop() that follows the one at the top frame's pc
StopNext ==
    CASE Top.pc = "set_req" -> Goto("clear_timer")
      [] Top.pc = "clear_timer" ->
            Goto(IF impl = "helper" THEN "shutdown" ELSE "drain")
      [] Top.pc = "shutdown" -> Goto("drain")
      [] Top.pc = "drain" ->
            IF is_running(state) /\ is_waiting_to_stop(state)
              THEN Goto("drain_sleep") ELSE Goto("chk_stopping")
      [] Top.pc = "chk_stopping" ->
            IF ~is_stopping(state)
              THEN Goto("set_stopping") ELSE Goto("cleanup")
      [] Top.pc = "drain_sleep" -> Goto("drain")
      [] Top.pc = "set_stopping" -> Goto("cleanup")
      [] Top.pc = "cleanup" -> Goto("stopped")
      [] Top.pc = "stopped" -> Return

\* Controller.stop() with Controller._stopped(); clihelper's stop() has no
\* shutdown() hook.  cleanup() is the application's hook: it returns or it
\* raises, and stop() catches nothing.
StopStep ==
    /\ At("stop")
    /\ CASE Top.pc = "set_req" -> SetState(STATE_STOP_REQUESTED)
         [] Top.pc = "set_stopping" -> SetState(STATE_STOPPING)
         [] Top.pc = "stopped" -> SetState(STATE_STOPPED)
         [] OTHER -> UNCHANGED <<state, last>>
    /\ itimer' = IF Top.pc = "clear_timer"
                   THEN setitimer(itimer, stop_timer, FALSE) ELSE itimer
    /\ cleanups' = IF Top.pc = "cleanup" THEN cleanups + 1 ELSE cleanups
    /\ stops' = IF Top.pc = "stopped"
                   /\ set_state(state, STATE_STOPPED).outcome = "set"
                  THEN stops + 1 ELSE stops
    /\ \E raises \in IF Top.pc = "cleanup" THEN BOOLEAN ELSE {FALSE} :
         /\ cleanupFailed' = (cleanupFailed \/ raises)
         /\ IF raises
              THEN Crash
              ELSE /\ stack' = StopNext
                   /\ UNCHANGED <<crashed, inflight>>
    /\ UNCHANGED <<impl, installed, alrm, nsig, hasFile, values, reloadeds,
                   resleep, restStop, application, loadedFile,
                   setups, processFailed, restHup, LOGGING, snapshot,
                   reloadResult, logging_config>>

\* Controller.on_sigterm()
SigtermStep ==
    /\ At("on_sigterm")
    /\ stack' = CASE Top.pc = "stop" -> Call("stop", "set_req", "ret")
                  [] Top.pc = "ret" -> Return
    /\ UNCHANGED <<impl, state, itimer, installed, alrm, nsig, inflight,
                   hasFile, values, crashed, cleanups, stops, reloadeds,
                   resleep, last, restStop, application, loadedFile,
                   cleanupFailed,
                   setups, processFailed, restHup, LOGGING, snapshot,
                   reloadResult, logging_config>>


\* `if self.is_sleeping: signal.pause()` at the end of a handler
PauseNext ==
    CASE Top.pc = "chk_sleep" ->
            IF is_sleeping(state) THEN Goto("call_pause") ELSE Return
      [] Top.pc = "call_pause" -> Goto("pause")
      [] Top.pc = "woken" -> Return

\* what a handler frame reads from the configuration file at this statement
Reads == IF Top.pc \in {"reload", "reload_configuration"}
           THEN FileContents ELSE {BadFile}

\* get_configuration() of clihelper: the parse error or the missing key is
\* not caught; otherwise the loadedFile dictionary replaces Controller._config
ReloadConfiguration(d, next) ==
    /\ IF d = BadFile
         THEN Crash
         ELSE stack' = Goto(next) /\ UNCHANGED <<crashed, inflight>>
    /\ values' = IF d = BadFile THEN values ELSE d
    /\ loadedFile' = d
    /\ UNCHANGED reloadeds

\* Controller.on_sighup(): helper reloads the Config in place; clihelper
\* stops, reloads and runs again
SighupStep ==
    /\ At("on_sighup")
    /\ Top.pc \in {"reload", "logging_update", "reloaded", "chk_sleep",
                   "call_pause", "woken", "stop", "reload_configuration",
                   "run", "ret"}
    /\ \E d \in Reads :
         LET r == config_reload(hasFile, values, ~hasFile, d)
         IN  CASE Top.pc = "reload" ->
                    /\ IF r.result = "TypeError"
                         THEN Crash
                         ELSE /\ stack' = Goto(IF r.result = "True"
                                                 THEN "logging_update"
                                                 ELSE "chk_sleep")
                              /\ UNCHANGED <<crashed, inflight>>
                    /\ values' = r.values
                    /\ loadedFile' = IF hasFile THEN d ELSE loadedFile
                    /\ reloadResult' = r.result
                    /\ UNCHANGED <<reloadeds, logging_config>>
               [] Top.pc = "logging_update" ->
                    \* LoggingConfig.update: hash() of the dict raises
                    LET u == update(LOGGING, logging_config.debug,
                                    LOGGING, logging_config.debug)
                    IN  /\ IF u.result = "TypeError"
                              THEN Crash
                              ELSE /\ stack' = Goto("reloaded")
                                   /\ UNCHANGED <<crashed, inflight>>
                        /\ logging_config' =
                             [logging_config EXCEPT !.debug = u.debug,
                                                    !.update = u.result]
                        /\ UNCHANGED <<values, reloadeds, loadedFile,
                                       reloadResult>>
               [] Top.pc = "reloaded" ->
                    /\ reloadeds' = reloadeds + 1
                    /\ stack' = Goto("chk_sleep")
                    /\ UNCHANGED <<values, crashed, inflight, loadedFile,
                                   reloadResult, logging_config>>
               [] Top.pc = "reload_configuration" ->
                    /\ ReloadConfiguration(d, "run")
                    /\ UNCHANGED <<reloadResult, logging_config>>
               [] OTHER ->
                    /\ stack' = CASE Top.pc = "stop" ->
                                       Call("stop", "set_req",
                                            "reload_configuration")
                                  [] Top.pc = "run" ->
                                       Call("run", "setup", "ret")
                                  [] Top.pc = "ret" -> Return
                                  [] OTHER -> PauseNext
                    /\ UNCHANGED <<values, reloadeds, crashed, inflight,
                                   loadedFile, reloadResult, logging_config>>
    /\ UNCHANGED <<impl, state, itimer, installed, alrm, nsig, hasFile,
                   cleanups, stops, resleep, last, restStop, application,
                   cleanupFailed,
                   setups, processFailed, restHup, LOGGING, snapshot>>

\* Controller.on_sigusr1(): a log line in helper; clihelper reloads the
\* configuration and pauses again when sleeping
Sigusr1Step ==
    /\ At("on_sigusr1")
    /\ Top.pc # "pause"
    /\ \E d \in Reads :
         IF Top.pc = "reload_configuration"
           THEN ReloadConfiguration(d, "chk_sleep")
           ELSE /\ stack' = IF Top.pc = "log" THEN Return ELSE PauseNext
                /\ UNCHANGED <<values, reloadeds, crashed, inflight,
                               loadedFile>>
    /\ UNCHANGED <<impl, state, itimer, installed, alrm, nsig, hasFile,
                   cleanups, stops, resleep, last, restStop, application,
                   cleanupFailed,
                   setups, processFailed, restHup, LOGGING, snapshot,
                   reloadResult, logging_config>>

\* Controller.on_sigusr2(): a log line in helper; clihelper pauses again when
\* sleeping
Sigusr2Step ==
    /\ At("on_sigusr2")
    /\ Top.pc # "pause"
    /\ stack' = IF Top.pc = "log" THEN Return ELSE PauseNext
    /\ UNCHANGED <<impl, state, itimer, installed, alrm, nsig, inflight,
                   hasFile, values, crashed, cleanups, stops, reloadeds,
                   resleep, last, restStop, application, loadedFile,
                   cleanupFailed,
                   setups, processFailed, restHup, LOGGING, snapshot,
                   reloadResult, logging_config>>

\* ------------------------------------------------------------- environment
HandlerOf(sig) ==
    CASE sig = "SIGHUP" -> IF impl = "legacy" THEN "_on_sighup" ELSE "on_sighup"
      [] sig = "SIGTERM" ->
            IF impl = "legacy" THEN "_on_sigterm" ELSE "on_sigterm"
      [] sig = "SIGUSR1" -> "on_sigusr1"
      [] sig = "SIGUSR2" -> "on_sigusr2"

\* handlers of a helper controller that start like their clihelper
\* predecessors: SIGHUP restarts the controller (stop, reload, run)
EntryPc_restarts(sig) ==
    CASE sig = "SIGHUP" -> "stop"
      [] sig = "SIGTERM" -> "stop"
      [] sig = "SIGUSR1" ->
            IF impl = "helper" THEN "log" ELSE "reload_configuration"
      [] sig = "SIGUSR2" -> IF impl = "helper" THEN "log" ELSE "chk_sleep"

\* handlers of a helper controller that start like their clihelper
\* predecessors: SIGUSR1 reloads the configuration
EntryPc_usr1_reloads(sig) ==
    CASE sig = "SIGHUP" -> IF impl = "helper" THEN "reload" ELSE "stop"
      [] sig = "SIGTERM" -> "stop"
      [] sig = "SIGUSR1" -> "reload_configuration"
      [] sig = "SIGUSR2" -> IF impl = "helper" THEN "log" ELSE "chk_sleep"

\* the first statement of each handler
EntryPc(sig) ==
    CASE sig = "SIGHUP" -> IF impl = "helper" THEN "reload" ELSE "stop"
      [] sig = "SIGTERM" -> "stop"
      [] sig = "SIGUSR1" ->
            IF impl = "helper" THEN "log" ELSE "reload_configuration"
      [] sig = "SIGUSR2" -> IF impl = "helper" THEN "log" ELSE "chk_sleep"

\* bookkeeping: a SIGTERM marks every process() call it arrives in
Mark(sig) ==
    IF sig = "SIGTERM"
      THEN [i \in 1..Len(stack) |->
              IF stack[i].pc = "in_process"
                THEN [stack[i] EXCEPT !.term = TRUE,
                                      !.act = @ \/ is_active(state)]
                ELSE stack[i]]
      ELSE stack

\* run() is in its `while ...: signal.pause()` loop, no handler is running and
\* the state is Sleeping
AtRest ==
    /\ Len(stack) = 2
    /\ Top.fn = "run"
    /\ Top.pc \in {"loop", "call_pause", "pause", "woken"}
    /\ is_sleeping(state)

\* the operating system delivers sig: its handler runs on top of whatever
\* the main thread is doing
Deliver(sig) ==
    /\ installed
    /\ stack # <<>>
    /\ nsig < MaxSignals
    /\ Nest < MaxNest
    /\ nsig' = nsig + 1
    /\ stack' = Append(Mark(sig), Frame(HandlerOf(sig), EntryPc(sig)))
    /\ restStop' = (restStop \/ (sig = "SIGTERM" /\ AtRest))
    /\ restHup' = (restHup \/ (sig = "SIGHUP" /\ AtRest))
    /\ UNCHANGED <<impl, state, itimer, installed, alrm, inflight, hasFile,
                   values, crashed, cleanups, stops, reloadeds, resleep, last,
                   application, loadedFile, cleanupFailed,
                   setups, processFailed, LOGGING, snapshot,
                   reloadResult, logging_config>>

Sighup == Deliver("SIGHUP")
Sigterm == Deliver("SIGTERM")
Sigusr1 == Deliver("SIGUSR1")
Sigusr2 == Deliver("SIGUSR2")

\* ITIMER_REAL expires (it is armed without an interval, so it fires once):
\* SIGALRM runs _wake, or kills the process if no handler is registered
TimerExpire ==
    /\ itimer["REAL"]
    /\ stack # <<>>
    /\ Nest < MaxNest
    /\ itimer' = setitimer(itimer, "REAL", FALSE)
    /\ IF alrm
         THEN /\ stack' = Append(stack, Frame("_wake", "check"))
              /\ UNCHANGED <<crashed, inflight>>
         ELSE Crash
    /\ UNCHANGED <<impl, state, installed, alrm, nsig, hasFile, values,
                   cleanups, stops, reloadeds, resleep, last, restStop,
                   application, loadedFile, cleanupFailed,
                   setups, processFailed, restHup, LOGGING, snapshot,
                   reloadResult, logging_config>>

Next ==
    \/ StartStep
    \/ RunStep
    \/ ProcessCall
    \/ ProcessReturn
    \/ ProcessRaise
    \/ WakeStep
    \/ SleepStep
    \/ StopStep
    \/ SigtermStep
    \/ SighupStep
    \/ Sigusr1Step
    \/ Sigusr2Step
    \/ Sighup
    \/ Sigterm
    \/ Sigusr1
    \/ Sigusr2
    \/ TimerExpire

Spec == Init /\ [][Next]_vars

\* helper.controller.Controller alone
InitHelper == Init /\ impl = "helper"
SpecHelper == InitHelper /\ [][Next]_vars

\* clihelper.Controller alone
InitCli == Init /\ impl = "clihelper"
SpecCli == InitCli /\ [][Next]_vars


\* -------------------------------------- clihelper.py: Controller methods
\* Controller._get_wake_interval()
_get_wake_interval ==
    IF WakeOf(values) # 0 THEN WakeOf(values) ELSE _WAKE_INTERVAL

\* self._set_state(target), as one statement of the caller
LegacySetState(target) ==
    LET r == _set_state(state, target)
    IN  /\ state' = r.state
        /\ last' = [from |-> state, to |-> target, outcome |-> r.outcome]

\* Controller._sleep() of clihelper.py
LegacySleepStep ==
    /\ impl = "legacy"
    /\ At("_sleep")
    /\ itimer' = IF Top.pc = "setitimer"
                   THEN setitimer(itimer, "REAL", _get_wake_interval > 0)
                   ELSE itimer
    /\ IF Top.pc = "set_state"
         THEN LegacySetState(_STATE_SLEEPING) ELSE UNCHANGED <<state, last>>
    /\ stack' = CASE Top.pc = "check" ->
                        IF state = _STATE_SHUTTING_DOWN
                          THEN Return ELSE Goto("setitimer")
                  [] Top.pc = "setitimer" -> Goto("set_state")
                  [] Top.pc = "set_state" -> Return
    /\ UNCHANGED <<impl, installed, alrm, nsig, inflight, hasFile, values,
                   crashed, cleanups, stops, reloadeds, resleep, restStop,
                   application, loadedFile, cleanupFailed, setups,
                   processFailed, restHup, LOGGING, snapshot,
                   reloadResult, logging_config>>

\* Controller.run() of clihelper.py
LegacyRunStep ==
    /\ impl = "legacy"
    /\ At("run")
    /\ Top.pc \in {"setup", "sigalrm", "sleep", "loop", "call_pause", "woken"}
    /\ alrm' = (alrm \/ Top.pc = "sigalrm")
    /\ setups' = IF Top.pc = "setup" THEN setups + 1 ELSE setups
    /\ stack' = CASE Top.pc = "setup" -> Goto("process")
                  [] Top.pc = "sigalrm" -> Goto("sleep")
                  [] Top.pc = "sleep" -> Call("_sleep", "check", "loop")
                  [] Top.pc = "loop" ->
                        IF state \in {_STATE_RUNNING, _STATE_SLEEPING}
                          THEN Goto("call_pause") ELSE Return
                  [] Top.pc = "call_pause" -> Goto("pause")
                  [] Top.pc = "woken" -> Goto("loop")
    /\ UNCHANGED <<impl, state, itimer, installed, nsig, inflight, hasFile,
                   values, crashed, cleanups, stops, reloadeds, resleep, last,
                   restStop, application, loadedFile, cleanupFailed,
                   processFailed, restHup, LOGGING, snapshot,
                   reloadResult, logging_config>>

\* Controller._wake() of clihelper.py, the SIGALRM handler
LegacyWakeStep ==
    /\ impl = "legacy"
    /\ At("_wake")
    /\ Top.pc \in {"check", "set_running", "after", "ret"}
    /\ IF Top.pc = "set_running"
         THEN LegacySetState(_STATE_RUNNING) ELSE UNCHANGED <<state, last>>
    /\ stack' = CASE Top.pc = "check" ->
                        IF state \notin {_STATE_SHUTTING_DOWN, _STATE_IDLE}
                          THEN Goto("set_running") ELSE Return
                  [] Top.pc = "set_running" -> Goto("process")
                  [] Top.pc = "after" -> Call("_sleep", "check", "ret")
                  [] Top.pc = "ret" -> Return
    /\ UNCHANGED <<impl, itimer, installed, alrm, nsig, inflight, hasFile,
                   values, crashed, cleanups, stops, reloadeds, resleep,
                   restStop, application, loadedFile, cleanupFailed, setups,
                   processFailed, restHup, LOGGING, snapshot,
                   reloadResult, logging_config>>

\* _shutdown() that does not wait for the run in progress
LegacyShutdownNext_no_drain ==
    CASE Top.pc = "drain" -> Goto("set_shutting_down")
      [] Top.pc = "drain_sleep" -> Goto("drain")
      [] Top.pc = "set_shutting_down" -> Goto("clear_timer")
      [] Top.pc = "clear_timer" -> Goto("cleanup")
      [] Top.pc = "cleanup" -> Goto("shutdown_complete")
      [] Top.pc = "shutdown_complete" -> Return

\* the statement of _shutdown() that follows the one at the top frame's pc
LegacyShutdownNext ==
    CASE Top.pc = "drain" ->
            IF state = _STATE_RUNNING
              THEN Goto("drain_sleep") ELSE Goto("set_shutting_down")
      [] Top.pc = "drain_sleep" -> Goto("drain")
      [] Top.pc = "set_shutting_down" -> Goto("clear_timer")
      [] Top.pc = "clear_timer" -> Goto("cleanup")
      [] Top.pc = "cleanup" -> Goto("shutdown_complete")
      [] Top.pc = "shutdown_complete" -> Return

\* Controller._shutdown() with Controller._shutdown_complete(); _cleanup()
\* is the application's hook: it returns or it raises
LegacyShutdownStep ==
    /\ impl = "legacy"
    /\ At("_shutdown")
    /\ CASE Top.pc = "set_shutting_down" ->
              LegacySetState(_STATE_SHUTTING_DOWN)
         [] Top.pc = "shutdown_complete" -> LegacySetState(_STATE_IDLE)
         [] OTHER -> UNCHANGED <<state, last>>
    /\ itimer' = IF Top.pc = "clear_timer"
                   THEN setitimer(itimer, "PROF", FALSE) ELSE itimer
    /\ cleanups' = IF Top.pc = "cleanup" THEN cleanups + 1 ELSE cleanups
    /\ stops' = IF Top.pc = "shutdown_complete"
                   /\ _set_state(state, _STATE_IDLE).outcome = "set"
                  THEN stops + 1 ELSE stops
    /\ \E raises \in IF Top.pc = "cleanup" THEN BOOLEAN ELSE {FALSE} :
         /\ cleanupFailed' = (cleanupFailed \/ raises)
         /\ IF raises
              THEN Crash
              ELSE /\ stack' = LegacyShutdownNext
                   /\ UNCHANGED <<crashed, inflight>>
    /\ UNCHANGED <<impl, installed, alrm, nsig, hasFile, values, reloadeds,
                   resleep, restStop, application, loadedFile, setups,
                   processFailed, restHup, LOGGING, snapshot,
                   reloadResult, logging_config>>

\* Controller._on_sighup() of clihelper.py: _shutdown(),
\* _reload_configuration(), run()
LegacySighupStep ==
    /\ impl = "legacy"
    /\ At("_on_sighup")
    /\ \E d \in Reads :
         IF Top.pc = "reload_configuration"
           THEN ReloadConfiguration(d, "run")
           ELSE /\ stack' = CASE Top.pc = "stop" ->
                                  Call("_shutdown", "drain",
                                       "reload_configuration")
                             [] Top.pc = "run" -> Call("run", "setup", "ret")
                             [] Top.pc = "ret" -> Return
                /\ UNCHANGED <<values, reloadeds, crashed, inflight,
                               loadedFile>>
    /\ UNCHANGED <<impl, state, itimer, installed, alrm, nsig, hasFile,
                   cleanups, stops, resleep, last, restStop, application,
                   cleanupFailed, setups, processFailed, restHup, LOGGING,
                   snapshot,
                   reloadResult, logging_config>>

\* Controller._on_sigterm() of clihelper.py
LegacySigtermStep ==
    /\ impl = "legacy"
    /\ At("_on_sigterm")
    /\ stack' = CASE Top.pc = "stop" -> Call("_shutdown", "drain", "ret")
                  [] Top.pc = "ret" -> Return
    /\ UNCHANGED <<impl, state, itimer, installed, alrm, nsig, inflight,
                   hasFile, values, crashed, cleanups, stops, reloadeds,
                   resleep, last, restStop, application, loadedFile,
                   cleanupFailed, setups, processFailed, restHup, LOGGING,
                   snapshot,
                   reloadResult, logging_config>>

\* clihelper.run(controller) of clihelper.py has registered the handlers and
\* built the controller (__init__ sets Idle), and is about to call its run()
InitLegacy ==
    /\ impl = "legacy"
    /\ state = _STATE_IDLE
    /\ stack = <<Frame("start", "run")>>
    /\ itimer = [t \in {"REAL", "PROF"} |-> FALSE]
    /\ installed = TRUE
    /\ alrm = FALSE
    /\ nsig = 0
    /\ inflight = 0
    /\ hasFile = TRUE
    /\ values = "cfgA"
    /\ crashed = FALSE
    /\ cleanups = 0
    /\ stops = 0
    /\ reloadeds = 0
    /\ resleep = FALSE
    /\ restStop = FALSE
    /\ last = [from |-> -1, to |-> _STATE_IDLE, outcome |-> "set"]
    /\ application = WakeOf(values)
    /\ loadedFile = "none"
    /\ cleanupFailed = FALSE
    /\ setups = 0
    /\ processFailed = FALSE
    /\ restHup = FALSE
    /\ LOGGING = ConstructedLOGGING
    /\ snapshot = [returned |-> TRUE, config |-> ConstructedLOGGING]
    /\ reloadResult = "none"
    /\ logging_config = [built |-> TRUE, debug |-> "False", update |-> "none"]

\* the two clihelper controllers under SIGHUP, SIGTERM and the wake timer
InitRestart == InitCli \/ InitLegacy

NextRestart ==
    \/ StartStep
    \/ RunStep
    \/ ProcessCall
    \/ ProcessReturn
    \/ WakeStep
    \/ SleepStep
    \/ StopStep
    \/ SigtermStep
    \/ SighupStep
    \/ LegacyRunStep
    \/ LegacyWakeStep
    \/ LegacySleepStep
    \/ LegacyShutdownStep
    \/ LegacySighupStep
    \/ LegacySigtermStep
    \/ Sighup
    \/ Sigterm
    \/ TimerExpire

SpecRestart == InitRestart /\ [][NextRestart]_vars

\* the controller of clihelper.py under SIGTERM and the wake timer.  The
\* interpreter keeps executing the main thread, handlers included, and an
\* armed timer expires in the end; nothing obliges anyone to send SIGTERM.
LegacyProgramStep ==
    \/ StartStep
    \/ ProcessCall
    \/ ProcessReturn
    \/ LegacyRunStep
    \/ LegacyWakeStep
    \/ LegacySleepStep
    \/ LegacyShutdownStep
    \/ LegacySigtermStep

NextLegacy == LegacyProgramStep \/ Sigterm \/ TimerExpire

SpecLegacy ==
    /\ InitLegacy
    /\ [][NextLegacy]_vars
    /\ WF_vars(LegacyProgramStep)
    /\ WF_vars(TimerExpire)

\* helper.controller.Controller left to run: no SIGTERM and no SIGHUP is
\* sent and process() does not raise.  The interpreter keeps executing the
\* main thread, and an armed timer expires in the end.
ProgramStep ==
    \/ StartStep
    \/ RunStep
    \/ ProcessCall
    \/ ProcessReturn
    \/ WakeStep
    \/ SleepStep
    \/ Sigusr1Step
    \/ Sigusr2Step

NextUndisturbed == ProgramStep \/ Sigusr1 \/ Sigusr2 \/ TimerExpire

SpecUndisturbed ==
    /\ InitHelper
    /\ [][NextUndisturbed]_vars
    /\ WF_vars(ProgramStep)
    /\ WF_vars(TimerExpire)

\* the process() of an implementing class marks the controller Idle, the
\* state that is there for implementing classes to set
ProcessSetsIdle ==
    /\ impl = "helper"
    /\ stack # <<>>
    /\ Top.pc = "in_process"
    /\ SetState(STATE_IDLE)
    /\ UNCHANGED <<impl, stack, itimer, installed, alrm, nsig, inflight,
                   hasFile, values, crashed, cleanups, stops, reloadeds,
                   resleep, restStop, application, loadedFile, cleanupFailed,
                   setups, processFailed, restHup, LOGGING, snapshot,
                   reloadResult, logging_config>>

\* the event loop of such a controller, with no SIGTERM and no SIGHUP
NextIdle == NextUndisturbed \/ ProcessSetsIdle

SpecIdle == InitHelper /\ [][NextIdle]_vars

\* values the configuration file can give Application.wake_interval
ConfiguredIntervals == {-1, 0, 1, 5}

\* helper.controller.Controller built from a configuration whose Application
\* section sets wake_interval, or leaves Config.APPLICATION's 60 in place
InitInterval ==
    /\ impl = "helper"
    /\ state = STATE_INITIALIZING
    /\ stack = <<Frame("start", "setup_signals")>>
    /\ itimer = [t \in {"REAL", "PROF"} |-> FALSE]
    /\ installed = FALSE
    /\ alrm = FALSE
    /\ nsig = 0
    /\ inflight = 0
    /\ hasFile = TRUE
    /\ values = "cfgA"
    /\ crashed = FALSE
    /\ cleanups = 0
    /\ stops = 0
    /\ reloadeds = 0
    /\ resleep = FALSE
    /\ restStop = FALSE
    /\ last = [from |-> 0, to |-> STATE_INITIALIZING, outcome |-> "set"]
    /\ application \in ConfiguredIntervals \cup {WakeOf(values)}
    /\ loadedFile = "none"
    /\ cleanupFailed = FALSE
    /\ setups = 0
    /\ processFailed = FALSE
    /\ restHup = FALSE
    /\ LOGGING = ConstructedLOGGING
    /\ snapshot = [returned |-> TRUE, config |-> ConstructedLOGGING]
    /\ reloadResult = "none"
    /\ logging_config = [built |-> TRUE, debug |-> "False", update |-> "none"]

\* the event loop of such a controller, with no SIGTERM and no SIGHUP
SpecInterval == InitInterval /\ [][NextUndisturbed]_vars

\* ------------------------------------- the logging dictionaries, library use
\* the module helper.config has been imported and nothing has read
\* Config.logging yet
InitLogging ==
    /\ impl = "helper"
    /\ state = STATE_INITIALIZING
    /\ stack = <<>>
    /\ itimer = [t \in {"REAL", "PROF"} |-> FALSE]
    /\ installed = FALSE
    /\ alrm = FALSE
    /\ nsig = 0
    /\ inflight = 0
    /\ hasFile = FALSE
    /\ values = "cfgA"
    /\ crashed = FALSE
    /\ cleanups = 0
    /\ stops = 0
    /\ reloadeds = 0
    /\ resleep = FALSE
    /\ restStop = FALSE
    /\ last = [from |-> 0, to |-> STATE_INITIALIZING, outcome |-> "set"]
    /\ application = WakeOf(values)
    /\ loadedFile = "none"
    /\ cleanupFailed = FALSE
    /\ setups = 0
    /\ processFailed = FALSE
    /\ restHup = FALSE
    /\ LOGGING = DefaultLOGGING
    /\ snapshot = [returned |-> FALSE, config |-> DefaultLOGGING]
    /\ reloadResult = "none"
    /\ logging_config = [built |-> FALSE, debug |-> "None", update |-> "none"]

\* some Config instance, built from a file with the Logging section
\* config_in, has its logging property read
ConfigLogging ==
    /\ stack = <<>>
    /\ \E config_in \in LoggingSections :
         /\ LOGGING' = logging(LOGGING, config_in)
         /\ snapshot' = [returned |-> TRUE, config |-> LOGGING']
    /\ UNCHANGED <<impl, state, stack, itimer, installed, alrm, nsig,
                   inflight, hasFile, values, crashed, cleanups, stops,
                   reloadeds, resleep, restStop, last, application,
                   loadedFile, cleanupFailed, setups, processFailed, restHup,
                   reloadResult, logging_config>>

\* LoggingConfig(config.logging, debug): __init__ keeps the dictionary it is
\* given, the one Config.logging returned, and configure() edits it
LoggingConfigInit ==
    /\ stack = <<>>
    /\ snapshot.returned
    /\ \E debug \in {"None", "True", "False"} :
         /\ LOGGING' = configure(LOGGING, debug)
         /\ logging_config' = [built |-> TRUE, debug |-> debug,
                               update |-> "none"]
    /\ UNCHANGED <<impl, state, stack, itimer, installed, alrm, nsig,
                   inflight, hasFile, values, crashed, cleanups, stops,
                   reloadeds, resleep, restStop, last, application,
                   loadedFile, cleanupFailed, setups, processFailed, restHup,
                   snapshot, reloadResult>>

\* logging_config.update(config.logging, debug), as on_sighup calls it:
\* reading Config.logging merges the section config_in into Config.LOGGING,
\* the dictionary the LoggingConfig already holds, and hands it over
LoggingConfigUpdate ==
    /\ stack = <<>>
    /\ logging_config.built
    /\ \E config_in \in LoggingSections, debug \in {"None", "True", "False"} :
         LET configuration == logging(LOGGING, config_in)
             u == update(configuration, logging_config.debug,
                         configuration, debug)
         IN  /\ LOGGING' = u.config
             /\ snapshot' = [returned |-> TRUE, config |-> configuration]
             /\ logging_config' = [built |-> TRUE, debug |-> u.debug,
                                   update |-> u.result]
    /\ UNCHANGED <<impl, state, stack, itimer, installed, alrm, nsig,
                   inflight, hasFile, values, crashed, cleanups, stops,
                   reloadeds, resleep, restStop, last, application,
                   loadedFile, cleanupFailed, setups, processFailed, restHup,
                   reloadResult>>

NextLogging == ConfigLogging \/ LoggingConfigInit \/ LoggingConfigUpdate

SpecLogging == InitLogging /\ [][NextLogging]_vars

\* --------------------------------------- set_state called directly (the API)
\* values a caller can pass: the seven states and three unrecognized ones
Targets == STATES \cup {-1, 0, 8}

\* a constructed controller that has not been started: __init__ has set
\* Initializing, and every other state is reached through set_state itself
InitApi ==
    /\ impl \in Impls
    /\ state = STATE_INITIALIZING
    /\ stack = <<>>
    /\ itimer = [t \in {"REAL", "PROF"} |-> FALSE]
    /\ installed = FALSE
    /\ alrm = FALSE
    /\ nsig = 0
    /\ inflight = 0
    /\ hasFile = FALSE
    /\ values = "cfgA"
    /\ crashed = FALSE
    /\ cleanups = 0
    /\ stops = 0
    /\ reloadeds = 0
    /\ resleep = FALSE
    /\ restStop = FALSE
    /\ last = [from |-> 0, to |-> STATE_INITIALIZING, outcome |-> "set"]
    /\ application = WakeOf(values)
    /\ loadedFile = "none"
    /\ cleanupFailed = FALSE
    /\ setups = 0
    /\ processFailed = FALSE
    /\ restHup = FALSE
    /\ LOGGING = ConstructedLOGGING
    /\ snapshot = [returned |-> TRUE, config |-> ConstructedLOGGING]
    /\ reloadResult = "none"
    /\ logging_config = [built |-> TRUE, debug |-> "False", update |-> "none"]

\* controller.set_state(t), called from outside the event loop
ApiSetState ==
    /\ impl \in Impls
    /\ stack = <<>>
    /\ \E t \in Targets : SetState(t)
    /\ UNCHANGED <<impl, stack, itimer, installed, alrm, nsig, inflight,
                   hasFile, values, crashed, cleanups, stops, reloadeds,
                   resleep, restStop, application, loadedFile, cleanupFailed,
                   setups, processFailed, restHup, LOGGING, snapshot,
                   reloadResult, logging_config>>

NextApi == ApiSetState

SpecApi == InitApi /\ [][NextApi]_vars

\* the same for the controller of clihelper.py: __init__ has set Idle
LegacyTargets == LEGACY_STATES \cup {-1, 4}

InitLegacyApi ==
    /\ impl = "legacy"
    /\ state = _STATE_IDLE
    /\ stack = <<>>
    /\ itimer = [t \in {"REAL", "PROF"} |-> FALSE]
    /\ installed = FALSE
    /\ alrm = FALSE
    /\ nsig = 0
    /\ inflight = 0
    /\ hasFile = FALSE
    /\ values = "cfgA"
    /\ crashed = FALSE
    /\ cleanups = 0
    /\ stops = 0
    /\ reloadeds = 0
    /\ resleep = FALSE
    /\ restStop = FALSE
    /\ last = [from |-> -1, to |-> _STATE_IDLE, outcome |-> "set"]
    /\ application = WakeOf(values)
    /\ loadedFile = "none"
    /\ cleanupFailed = FALSE
    /\ setups = 0
    /\ processFailed = FALSE
    /\ restHup = FALSE
    /\ LOGGING = ConstructedLOGGING
    /\ snapshot = [returned |-> TRUE, config |-> ConstructedLOGGING]
    /\ reloadResult = "none"
    /\ logging_config = [built |-> TRUE, debug |-> "False", update |-> "none"]

\* controller._set_state(t) of clihelper.py
ApiLegacySetState ==
    /\ impl = "legacy"
    /\ stack = <<>>
    /\ \E t \in LegacyTargets :
         LET r == _set_state(state, t)
         IN  /\ state' = r.state
             /\ last' = [from |-> state, to |-> t, outcome |-> r.outcome]
    /\ UNCHANGED <<impl, stack, itimer, installed, alrm, nsig, inflight,
                   hasFile, values, crashed, cleanups, stops, reloadeds,
                   resleep, restStop, application, loadedFile, cleanupFailed,
                   setups, processFailed, restHup, LOGGING, snapshot,
                   reloadResult, logging_config>>

\* set_state of all three revisions, called directly
InitApiAll == InitApi \/ InitLegacyApi
NextApiAll == ApiSetState \/ ApiLegacySetState
SpecApiAll == InitApiAll /\ [][NextApiAll]_vars

\* controller._sleep() called directly, in whatever state set_state has
\* brought the controller to
ApiSleep ==
    /\ stack = <<>>
    /\ stack' = <<Frame("caller", "ret"), Frame("_sleep", "check")>>
    /\ UNCHANGED <<impl, state, itimer, installed, alrm, nsig, inflight,
                   hasFile, values, crashed, cleanups, stops, reloadeds,
                   resleep, restStop, last, application, loadedFile,
                   cleanupFailed, setups, processFailed, restHup, LOGGING,
                   snapshot,
                   reloadResult, logging_config>>

\* the direct call has returned
ApiReturn ==
    /\ At("caller")
    /\ stack' = <<>>
    /\ UNCHANGED <<impl, state, itimer, installed, alrm, nsig, inflight,
                   hasFile, values, crashed, cleanups, stops, reloadeds,
                   resleep, restStop, last, application, loadedFile,
                   cleanupFailed, setups, processFailed, restHup, LOGGING,
                   snapshot,
                   reloadResult, logging_config>>

NextSleepApi ==
    \/ ApiSetState
    \/ ApiLegacySetState
    \/ ApiSleep
    \/ ApiReturn
    \/ SleepStep
    \/ LegacySleepStep

SpecSleepApi == InitApiAll /\ [][NextSleepApi]_vars

\* controller._set_state(t) of clihelper.py between two direct calls
ShutdownApiSetState ==
    /\ stack = <<>>
    /\ ApiLegacySetState

\* controller._shutdown() of clihelper.py called directly, in whatever state
\* _set_state has brought the controller to
ApiShutdown ==
    /\ impl = "legacy"
    /\ stack = <<>>
    /\ cleanups < MaxSignals
    /\ stack' = <<Frame("caller", "ret"), Frame("_shutdown", "drain")>>
    /\ UNCHANGED <<impl, state, itimer, installed, alrm, nsig, inflight,
                   hasFile, values, crashed, cleanups, stops, reloadeds,
                   resleep, restStop, last, application, loadedFile,
                   cleanupFailed, setups, processFailed, restHup, LOGGING,
                   snapshot, reloadResult, logging_config>>

\* time.sleep(_SLEEP_UNIT) of the wait loop, during which the run in progress
\* ends elsewhere: its _sleep() sets Sleeping, or a shutdown sets ShuttingDown
TimeSleep ==
    /\ impl = "legacy"
    /\ At("_shutdown")
    /\ Top.pc = "drain_sleep"
    /\ \E t \in {_STATE_SLEEPING, _STATE_SHUTTING_DOWN} : LegacySetState(t)
    /\ stack' = Goto("drain")
    /\ UNCHANGED <<impl, itimer, installed, alrm, nsig, inflight, hasFile,
                   values, crashed, cleanups, stops, reloadeds, resleep,
                   restStop, application, loadedFile, cleanupFailed, setups,
                   processFailed, restHup, LOGGING, snapshot, reloadResult,
                   logging_config>>

NextShutdownApi ==
    \/ ShutdownApiSetState
    \/ ApiShutdown
    \/ ApiReturn
    \/ LegacyShutdownStep
    \/ TimeSleep

SpecShutdownApi == InitLegacyApi /\ [][NextShutdownApi]_vars

\* helper.controller.Controller: the event loop under signals, and set_state
\* called by the application once start() has returned
NextLifecycle == Next \/ ApiSetState
SpecLifecycle == InitHelper /\ [][NextLifecycle]_vars

\* ===================================================================== claims

\* the transition table of the data model, as (from, to) pairs
TransitionTable ==
    ({STATE_INITIALIZING, STATE_IDLE, STATE_ACTIVE}
        \X {STATE_ACTIVE, STATE_IDLE, STATE_SLEEPING, STATE_STOP_REQUESTED,
            STATE_STOPPING})
    \cup ({STATE_SLEEPING}
        \X {STATE_ACTIVE, STATE_IDLE, STATE_STOP_REQUESTED, STATE_STOPPING})
    \cup ({STATE_STOP_REQUESTED} \X {STATE_STOPPING, STATE_STOPPED})
    \cup ({STATE_STOPPING} \X {STATE_STOPPED})

\* C1: from every state but Stopped, set_state with a recognized target that
\* differs from the current state moves to the target exactly when the pair
\* is in the transition table; otherwise it returns without raising and the
\* state stays what it was.
C1_TransitionTable ==
    (/\ last.from \in STATES \ {STATE_STOPPED}
     /\ last.to \in STATES
     /\ last.to # last.from)
    => /\ (state = last.to) <=> (<<last.from, last.to>> \in TransitionTable)
       /\ <<last.from, last.to>> \notin TransitionTable
            => state = last.from /\ last.outcome = "reject"

\* C1 witness: set_state(Active) was called while Stopping and was ignored
C1_Witness ==
    /\ last.from = STATE_STOPPING
    /\ last.to = STATE_ACTIVE
    /\ last.outcome = "reject"
    /\ state = STATE_STOPPING

\* C2: once the state is Stopped no step of the program changes it
C2_StoppedTerminal == [][state = STATE_STOPPED => state' = STATE_STOPPED]_vars

\* C3: at most one process() invocation is in flight at any time
C3_AtMostOneProcess == inflight <= 1

\* a process() call is in flight that a SIGTERM interrupted in state Active
Draining ==
    \E i \in 1..Len(stack) : stack[i].pc = "in_process" /\ stack[i].act

\* C4: while a process() call that a SIGTERM interrupted in state Active is
\* still in flight, the state is neither Stopping nor Stopped and cleanup()
\* is not invoked
C4_Drain ==
    [][(Draining /\ Draining')
         => /\ state' \notin {STATE_STOPPING, STATE_STOPPED}
            /\ cleanups' = cleanups]_vars

\* C5: however often stop() is invoked, cleanup() runs once and the state
\* moves into Stopped once
C5_IdempotentStop == cleanups <= 1 /\ stops <= 1

C7_NoResleepAfterStop == ~resleep

\* the program can take a step without any further external signal: a
\* statement of the top frame, or the pending expiry of the wake timer
CanProgress ==
    \/ ENABLED (StartStep \/ RunStep \/ ProcessCall \/ ProcessReturn
                \/ WakeStep \/ SleepStep \/ StopStep \/ SigtermStep
                \/ SighupStep \/ Sigusr1Step \/ Sigusr2Step)
    \/ itimer["REAL"]

\* C8: after a SIGTERM that arrived while run() was sleeping in its wait
\* loop, the program does not come to rest before the state is Stopped and
\* run() has returned (a run ended by an uncaught exception is left aside)
C8_ShutdownFromRest ==
    restStop => \/ CanProgress
                \/ state = STATE_STOPPED /\ stack = <<>>
                \/ crashed

\* the statement of stop() that clears the timer is executed by this step
ClearsTimer ==
    /\ At("stop")
    /\ Top.pc = "clear_timer"
    /\ Len(stack') = Len(stack)
    /\ stack'[Len(stack)].pc # "clear_timer"

\* C9: when stop() has cleared the timer, the wake timer armed by _sleep is
\* no longer pending
C9_StopCancelsWakeTimer == [][ClearsTimer => ~itimer'["REAL"]]_vars

\* C10: the state enters Stopping only from StopRequested and Stopped only
\* from Stopping, and cleanup() is invoked only while the state is Stopping
C10_ShutdownOrder ==
    [][/\ (state' = STATE_STOPPING /\ state # STATE_STOPPING)
            => state = STATE_STOP_REQUESTED
       /\ (state' = STATE_STOPPED /\ state # STATE_STOPPED)
            => state = STATE_STOPPING
       /\ cleanups' # cleanups => state = STATE_STOPPING]_vars

\* on_sighup executes its self.config.reload() statement in this step, with a
\* configuration file to read
ReloadAttempt ==
    /\ At("on_sighup")
    /\ Top.pc = "reload"
    /\ hasFile
    /\ \/ stack' = <<>>
       \/ Len(stack') = Len(stack) /\ stack'[Len(stack)].pc # "reload"

\* C11: when the reload of on_sighup fails to load the file, the snapshot, the
\* wake interval and the state are what they were, configuration_reloaded()
\* is not invoked and the handler goes on to its last statement
C11_ReloadAtomicOnFailure ==
    [][(ReloadAttempt /\ loadedFile' = BadFile)
         => /\ values' = values
            /\ wake_interval' = wake_interval
            /\ state' = state
            /\ reloadeds' = reloadeds
            /\ stack' = Goto("chk_sleep")]_vars

\* C11 witness: on_sighup is past a reload that could not load the file
C11_Witness ==
    /\ At("on_sighup")
    /\ Top.pc = "chk_sleep"
    /\ hasFile
    /\ loadedFile = BadFile
    /\ values = "cfgA"

\* C12: once a reload has read the configuration whose wake interval was
\* edited from 60 to 5, wake_interval is the new value
C12_ReloadAppliesWakeInterval ==
    loadedFile = "cfgB" => wake_interval = WakeOf("cfgB")

\* the handlers of SIGHUP, SIGTERM, SIGUSR1 and SIGUSR2
SignalHandlerFns == {HandlerOf(sig) : sig \in Signals}

\* the frames of the stack that are signal handlers
HandlerFrames == {i \in 1..Len(stack) : stack[i].fn \in SignalHandlerFns}

\* C13: the state changes, the configuration is reloaded and the hooks are
\* called only while no signal handler is on the stack
C13_NoMutationInHandler ==
    [][HandlerFrames # {}
         => /\ state' = state
            /\ values' = values
            /\ cleanups' = cleanups
            /\ reloadeds' = reloadeds]_vars

\* C14: the handler of a signal has returned before the handler of the next
\* signal starts
C14_ArrivalOrder == Cardinality(HandlerFrames) <= 1

\* C15: once a stop() whose cleanup() hook raised is over, the state is
\* Stopped
C15_StoppedDespiteCleanupFailure ==
    (cleanupFailed /\ \A i \in 1..Len(stack) : stack[i].fn # "stop")
        => state = STATE_STOPPED

\* C20: process() is entered only in state Active
C20_ProcessOnlyWhenActive ==
    [][inflight' > inflight => state = STATE_ACTIVE]_vars

\* the values the running revision recognizes as states
Recognized == IF impl = "legacy" THEN LEGACY_STATES ELSE STATES

\* C16: set_state with a value that is not a recognized state raises and
\* leaves the state as it was, whatever the current state
C16_UnknownValueRaises ==
    last.to \notin Recognized => last.outcome = "raise" /\ state = last.from

\* C16 witness: set_state(-1) raised while Stopping
C16_Witness ==
    /\ impl = "helper"
    /\ last = [from |-> STATE_STOPPING, to |-> -1, outcome |-> "raise"]
    /\ state = STATE_STOPPING

\* C17: set_state(s) in state s leaves the state alone, does not raise and is
\* not treated as a rejected transition
C17_SameStateNoop ==
    (last.to \in STATES /\ last.to = last.from)
        => last.outcome = "noop" /\ state = last.from

\* C17 witness: set_state(Stopping) was called while Stopping
C17_Witness ==
    /\ last = [from |-> STATE_STOPPING, to |-> STATE_STOPPING,
                outcome |-> "noop"]
    /\ state = STATE_STOPPING

\* C18: the state is always one of the seven recognized states
C18_StateRecognized == state \in STATES

\* C18 witness: after a shutdown by SIGTERM, set_state was called with an
\* unrecognized value
C18_Witness ==
    /\ stops > 0
    /\ nsig > 0
    /\ last.to \notin STATES
    /\ state \in STATES

\* _wake has just been entered for an expiry of the wake timer
WakeEntered == At("_wake") /\ Top.pc = "check"

\* a process() call is executing in state Active
Processing == state = STATE_ACTIVE /\ inflight > 0

\* the state is Sleeping and the wake timer is armed
Asleep == state = STATE_SLEEPING /\ itimer["REAL"]

\* C19: the controller starts in Initializing; left to run with no SIGTERM
\* and no SIGHUP, each expiry of the wake timer leads to a process() call in
\* state Active, each such call to Sleeping with the timer armed again, and
\* both happen again and again
C19_WakeCycle ==
    /\ state = STATE_INITIALIZING
    /\ WakeEntered ~> Processing
    /\ Processing ~> Asleep
    /\ []<>Processing
    /\ []<>Asleep

\* C19 witness: run() waits in signal.pause(), Sleeping with the timer armed,
\* after a cycle that went from Active to Sleeping
C19_Witness ==
    /\ At("run")
    /\ Top.pc = "pause"
    /\ Asleep
    /\ last = [from |-> STATE_ACTIVE, to |-> STATE_SLEEPING, outcome |-> "set"]

C22_ProcessFailurePropagates ==
    /\ [][(processFailed' /\ ~processFailed) =>
            /\ stack' = <<>>
            /\ crashed'
            /\ state' = state
            /\ itimer' = itimer]_vars
    /\ [](processFailed =>
            /\ stack = <<>>
            /\ inflight = 0
            /\ ~itimer["REAL"]
            /\ ~is_sleeping(state))

\* C22 witness: process() has failed in a cycle that _wake() started from
\* Sleeping
C22_Witness ==
    /\ processFailed
    /\ crashed
    /\ alrm
    /\ state = STATE_ACTIVE
    /\ last = [from |-> STATE_SLEEPING, to |-> STATE_ACTIVE, outcome |-> "set"]

\* ---------------------------------------------------------------- C23
\* a step of the SIGUSR1/SIGUSR2 dispatch: the delivery that enters the
\* handler, or a statement executed by the handler itself
UsrDispatch ==
    \/ /\ Len(stack') = Len(stack) + 1
       /\ stack'[Len(stack')].fn \in {"on_sigusr1", "on_sigusr2"}
    \/ /\ At("on_sigusr1") \/ At("on_sigusr2")
       /\ Len(stack') <= Len(stack)

\* C23: in helper.controller.Controller the dispatch of SIGUSR1 or SIGUSR2
\* changes neither the lifecycle state nor the configuration nor the timers,
\* invokes neither process() nor cleanup(), and raises nothing
C23_UsrSignalsAreInert ==
    [][UsrDispatch =>
         /\ state' = state
         /\ values' = values
         /\ application' = application
         /\ itimer' = itimer
         /\ inflight' = inflight
         /\ cleanups' = cleanups
         /\ reloadeds' = reloadeds
         /\ crashed' = crashed]_vars

\* C23 witness: SIGUSR2 has interrupted the pause() of run() while Sleeping
\* with the wake timer armed, and its handler is about to return
C23_Witness ==
    /\ At("on_sigusr2")
    /\ Top.pc = "log"
    /\ Len(stack) = 3
    /\ stack[2].pc = "pause"
    /\ is_sleeping(state)
    /\ itimer["REAL"]

\* ---------------------------------------------------------------- C24
\* C24: whenever _sleep() arms the wake timer, the interval it passes is at
\* least 1, whatever integer the configuration holds
C24_WakeIntervalAtLeastOne ==
    (At("_sleep") /\ Top.pc = "setitimer") => wake_interval >= 1

\* ---------------------------------------------------------------- C25
\* an on_sighup dispatch is still under way
ReloadDispatching == \E i \in 1..Len(stack) : stack[i].fn = "on_sighup"

\* C25: once the dispatch of a Reload is over, configuration_reloaded() has
\* been invoked if the reload read a configuration file that parses, and it
\* is never invoked for reloads that read none
C25_ReloadedHookPerSuccessfulLoad ==
    /\ (loadedFile \in FileContents \ {BadFile} /\ ~ReloadDispatching)
          => reloadeds >= 1
    /\ loadedFile \in {"none", BadFile} => reloadeds = 0

\* ---------------------------------------------------------------- C26
\* the one signal sent so far is a SIGHUP that arrived while run() was
\* sleeping in its wait loop, and no process() call has failed
ReloadWhileSleeping == restHup /\ nsig = 1 /\ ~processFailed

\* C26: a Reload delivered while Sleeping leaves the cycle intact: the
\* dispatch raises nothing, and when it ends the state is Sleeping and the
\* wake timer is armed
C26_ReloadKeepsCycle ==
    /\ [](ReloadWhileSleeping => ~crashed)
    /\ [][(/\ ReloadWhileSleeping
           /\ At("on_sighup")
           /\ Len(stack') < Len(stack)
           /\ ~processFailed') =>
             /\ stack' # <<>>
             /\ is_sleeping(state')
             /\ itimer'["REAL"]]_vars

\* ---------------------------------------------------------------- C27
\* C27: reading Config.logging and constructing a LoggingConfig leave the
\* shared default Config.LOGGING as the class defines it, and leave a logging
\* configuration that was returned earlier as it was when it was returned
C27_LoggingNeverMutated ==
    /\ LOGGING = DefaultLOGGING
    /\ snapshot.returned => LOGGING = snapshot.config

\* ---------------------------------------------------------------- C28
\* the targets _set_state accepts from each state that restricts them
LegacyAccepted(from) ==
    CASE from = _STATE_RUNNING -> {_STATE_SLEEPING, _STATE_SHUTTING_DOWN}
      [] from = _STATE_SLEEPING -> {_STATE_RUNNING, _STATE_SHUTTING_DOWN}
      [] from = _STATE_SHUTTING_DOWN -> {_STATE_IDLE}
      [] OTHER -> LEGACY_STATES

\* C28: _set_state of clihelper.py, called with a recognized target from
\* Running, Sleeping or ShuttingDown, sets the state when the target is one
\* the current state accepts (Sleeping/ShuttingDown, Running/ShuttingDown,
\* Idle) and otherwise returns with the state unchanged and no exception
C28_LegacyTransitions ==
    (/\ impl = "legacy"
     /\ last.from \in {_STATE_RUNNING, _STATE_SLEEPING, _STATE_SHUTTING_DOWN}
     /\ last.to \in LEGACY_STATES) =>
        IF last.to \in LegacyAccepted(last.from)
          THEN last.outcome = "set" /\ state = last.to
          ELSE last.outcome = "reject" /\ state = last.from

\* C28 witness: Running was asked for while shutting down and was ignored
C28_Witness ==
    /\ impl = "legacy"
    /\ state = _STATE_SHUTTING_DOWN
    /\ last = [from |-> _STATE_SHUTTING_DOWN, to |-> _STATE_RUNNING,
               outcome |-> "reject"]

\* ---------------------------------------------------------------- C29
\* the controller is shutting down: Stopping in helper.controller and
\* clihelper, ShuttingDown in clihelper.py
SleepRefused ==
    IF impl = "legacy" THEN state = _STATE_SHUTTING_DOWN
                       ELSE state = STATE_STOPPING

\* the controller is busy: Active, or Running in clihelper.py
SleepFromBusy ==
    IF impl = "legacy" THEN state = _STATE_RUNNING ELSE state = STATE_ACTIVE

\* C29: _sleep() called while the controller is shutting down returns at once
\* with the timers and the state as they were; called while Running/Active
\* it goes on to arm the wake timer and then sets the state to Sleeping
C29_SleepGuard ==
    [][At("_sleep") =>
         /\ SleepRefused =>
              /\ Len(stack') < Len(stack)
              /\ itimer' = itimer
              /\ state' = state
         /\ (SleepFromBusy /\ Top.pc = "check") =>
              stack' = Goto("setitimer")
         /\ (SleepFromBusy /\ Top.pc = "setitimer") =>
              /\ itimer'["REAL"]
              /\ state' = state
              /\ stack' = Goto("set_state")
         /\ (SleepFromBusy /\ Top.pc = "set_state") =>
              /\ itimer'["REAL"]
              /\ state' = IF impl = "legacy" THEN _STATE_SLEEPING
                                             ELSE STATE_SLEEPING]_vars

\* C29 witness: _sleep() has returned to its caller in state Stopping and no
\* wake timer is armed
C29_Witness ==
    /\ impl = "helper"
    /\ At("caller")
    /\ state = STATE_STOPPING
    /\ ~itimer["REAL"]

\* ---------------------------------------------------------------- C30
\* the top frame is the SIGHUP handler of a clihelper controller
Restarting == At("on_sighup") \/ At("_on_sighup")

\* C30: the SIGHUP handler of the clihelper controllers starts to reload the
\* configuration only when its stop()/_shutdown() has run to completion
\* (cleanup() done, state Stopped, or Idle in clihelper.py), and enters run()
\* only when the reload has finished and installed the configuration it read
C30_RestartOrder ==
    [][Restarting =>
         /\ (Top.pc = "reload_configuration" /\ Len(stack') <= Len(stack)) =>
              /\ cleanups >= 1
              /\ stops >= 1
              /\ state = IF impl = "legacy" THEN _STATE_IDLE
                                            ELSE STATE_STOPPED
         /\ (Top.pc = "run" /\ Len(stack') = Len(stack) + 1
             /\ stack'[Len(stack')].fn = "run") =>
              /\ loadedFile \in FileContents \ {BadFile}
              /\ values = loadedFile
              /\ stops >= 1]_vars

\* C30 witness: the run() that a SIGHUP handler of clihelper.py entered after
\* _shutdown() and the reload is executing process()
C30_Witness ==
    /\ impl = "legacy"
    /\ Len(stack) >= 4
    /\ stack[Len(stack) - 1].fn = "_on_sighup"
    /\ stack[Len(stack) - 1].pc = "ret"
    /\ At("run")
    /\ Top.pc = "in_process"
    /\ loadedFile = "cfgB"
    /\ values = "cfgB"
    /\ stops >= 1

\* ---------------------------------------------------------------- C31
\* C31: a step of _shutdown() of clihelper.py taken while the state is Running
\* belongs to the wait loop and leaves the state, the timers and the count of
\* _cleanup() calls alone; entered while Sleeping, _shutdown() leaves the loop
\* at once, sets ShuttingDown, and when _cleanup() has returned its last
\* statement sets Idle and returns
C31_ShutdownWaitsForRun ==
    [][LegacyShutdownStep =>
         /\ state = _STATE_RUNNING =>
              /\ Top.pc \in {"drain", "drain_sleep"}
              /\ stack' \in {Goto("drain"), Goto("drain_sleep")}
              /\ state' = state
              /\ itimer' = itimer
              /\ cleanups' = cleanups
         /\ (state = _STATE_SLEEPING /\ Top.pc = "drain") =>
              stack' = Goto("set_shutting_down")
         /\ (state = _STATE_SLEEPING /\ Top.pc = "set_shutting_down") =>
              state' = _STATE_SHUTTING_DOWN
         /\ state = _STATE_SLEEPING =>
              Top.pc \in {"drain", "set_shutting_down"}
         /\ (state = _STATE_SHUTTING_DOWN
             /\ Top.pc \in {"clear_timer", "cleanup"}) =>
              state' = state
         /\ (state = _STATE_SHUTTING_DOWN /\ Top.pc = "shutdown_complete") =>
              /\ state' = _STATE_IDLE
              /\ stack' = Return]_vars

\* C31 witness: _shutdown(), called while Running, is asleep in its wait loop
\* with the state still Running and _cleanup() not called
C31_Witness ==
    /\ impl = "legacy"
    /\ At("_shutdown")
    /\ Top.pc = "drain_sleep"
    /\ state = _STATE_RUNNING
    /\ cleanups = 0
    /\ stops = 0

\* ---------------------------------------------------------------- C32
\* C32: Config.reload(), as on_sighup calls it, returns True exactly when a
\* configuration file is set, it loads, and what it holds differs from the
\* stored values, and then the stored values are the loaded ones; otherwise
\* it returns False and the stored values are as they were
C32_ReloadReportsChange ==
    [][(SighupStep /\ Top.pc = "reload") =>
         IF /\ hasFile
            /\ loadedFile' \in FileContents \ {BadFile}
            /\ loadedFile' # values
           THEN reloadResult' = "True" /\ values' = loadedFile'
           ELSE reloadResult' = "False" /\ values' = values]_vars

\* ---------------------------------------------------------------- C33
\* C33: LoggingConfig.update, given a configuration that differs from the one
\* it held, returns True and then holds the new configuration, whether or not
\* the debug flag it is given differs from its own
C33_UpdateOnChangedLogging ==
    [][(LoggingConfigUpdate /\ snapshot'.config # LOGGING) =>
         /\ logging_config'.update = "True"
         /\ LOGGING' = configure(snapshot'.config, logging_config'.debug)]_vars

\* ---------------------------------------------------------------- C34
\* SIGTERM has just been delivered to the controller of clihelper.py while
\* _process() was executing in state Running: _on_sigterm is about to call
\* _shutdown() on top of the interrupted _process()
TermDuringProcess ==
    /\ impl = "legacy"
    /\ At("_on_sigterm")
    /\ Top.pc = "stop"
    /\ state = _STATE_RUNNING
    /\ Len(stack) >= 2
    /\ stack[Len(stack) - 1].pc = "in_process"

\* C34: a SIGTERM delivered while _process() is in flight in state Running is
\* followed, in the end, by the controller being Idle with _cleanup() called
C34_TermDuringProcessShutsDown ==
    TermDuringProcess ~> (state = _STATE_IDLE /\ cleanups >= 1)

\* ---------------------------------------------------------------- C35
\* how far stop() has got, by the statement its frame is at
StopRank(pc) ==
    CASE pc = "set_req" -> 1
      [] pc = "clear_timer" -> 2
      [] pc = "shutdown" -> 3
      [] pc = "drain" -> 4
      [] pc = "drain_sleep" -> 4
      [] pc = "chk_stopping" -> 5
      [] pc = "set_stopping" -> 6
      [] pc = "cleanup" -> 7
      [] pc = "stopped" -> 8

StopStates == {STATE_STOP_REQUESTED, STATE_STOPPING, STATE_STOPPED}

\* C36: whenever the state of helper.controller.Controller is StopRequested,
\* Stopping or Stopped the wake timer ITIMER_REAL is not armed, and the
\* setitimer statement of _sleep() does not arm it in those states
C36_NoWakeTimerOnceStopping ==
    /\ [](state \in StopStates => ~itimer["REAL"])
    /\ [][(SleepStep /\ Top.pc = "setitimer" /\ state \in StopStates) =>
            ~itimer'["REAL"]]_vars

\* ---------------------------------------------------------------- C37
\* C37: the wait loop of run() in helper.controller is left, and run()
\* returns, only in state Stopped and with cleanup() invoked at least once
C37_RunReturnsStopped ==
    [][(impl = "helper" /\ RunStep /\ Len(stack') < Len(stack)) =>
         /\ Top.pc = "loop"
         /\ state = STATE_STOPPED
         /\ cleanups >= 1]_vars

\* C37 witness: run() has returned to start() after a stop that ran
\* cleanup() and reached Stopped
C37_Witness ==
    /\ impl = "helper"
    /\ At("start")
    /\ Top.pc = "ret"
    /\ state = STATE_STOPPED
    /\ cleanups >= 1
    /\ stops >= 1
    /\ ~crashed

====
